---- MODULE Spec2Model ----
(***************************************************************************)
(* srvplz: a static-file HTTP server (src/src/main.rs).                    *)
(*                                                                         *)
(* Strings are sequences of bytes (naturals 0..255), paths included, so    *)
(* that percent-decoding, UTF-8 validation, slicing and component          *)
(* splitting are computed the way the code and its libraries compute them. *)
(* Paths follow the Unix rules of std::path (separator 47 = '/').          *)
(***************************************************************************)
EXTENDS Integers, Sequences, FiniteSets, TLC

\* ------------------------------------------------------------------------
\* Bounds and sample inputs
\* ------------------------------------------------------------------------

\* A request path is a concatenation of at most MaxPieces pieces.
MaxPieces == 3

\* "/"  "a"  ".."  "%2e%2e"  "%FF"  "%C3%A9"
Pieces ==
    { <<47>>, <<97>>, <<46, 46>>,
      <<37, 50, 101, 37, 50, 101>>,
      <<37, 70, 70>>,
      <<37, 67, 51, 37, 65, 57>> }

RECURSIVE Concats(_)
Concats(n) ==
    IF n = 0 THEN { <<>> }
    ELSE LET shorter == Concats(n - 1)
         IN  shorter \cup { p \o q : p \in shorter, q \in Pieces }

\* A query component, "?" included: "?/".
Query == <<63, 47>>

\* The URLs of requests: a non-empty path, or a shorter path, which may be
\* empty, and the query; and one URL with a second '?', "/a?/?/".
Urls ==
    (Concats(MaxPieces) \ { <<>> })
        \cup { p \o Query : p \in Concats(MaxPieces - 1) }
        \cup { <<47, 97>> \o Query \o Query }

Methods == { "GET", "HEAD", "POST" }

\* File contents on disk: an empty file and a two-byte file.
Contents == { <<>>, <<120, 121>> }

\* ------------------------------------------------------------------------
\* Byte-string helpers (std::str)
\* ------------------------------------------------------------------------

\* str::ends_with('/')
EndsWithSlash(s) == Len(s) > 0 /\ s[Len(s)] = 47

\* str::trim_end_matches('/'): every trailing '/' is removed.
RECURSIVE trim_end_matches(_)
trim_end_matches(s) ==
    IF EndsWithSlash(s) THEN trim_end_matches(SubSeq(s, 1, Len(s) - 1)) ELSE s

\* Variant: the query stays on the path.
WholeUrl(url) == url

\* str::split_once('?') with unwrap_or((url, "")): the part before the first '?'.
RECURSIVE BeforeQuery(_)
BeforeQuery(url) ==
    IF url = <<>> \/ Head(url) = 63 THEN <<>>
    ELSE <<Head(url)>> \o BeforeQuery(Tail(url))

\* u64::to_string: decimal digits, most significant first.
RECURSIVE to_string(_)
to_string(n) ==
    IF n < 10 THEN <<48 + n>> ELSE to_string(n \div 10) \o <<48 + (n % 10)>>

\* ------------------------------------------------------------------------
\* urlencoding::decode (called at main.rs:126)
\* ------------------------------------------------------------------------

\* Value of an ASCII hex digit, -1 for any other byte.
from_hex_digit(b) ==
    IF b >= 48 /\ b <= 57 THEN b - 48
    ELSE IF b >= 65 /\ b <= 70 THEN b - 55
    ELSE IF b >= 97 /\ b <= 102 THEN b - 87
    ELSE -1

\* Every well-formed %XX becomes the byte XX; a '%' that is not followed by
\* two hex digits is copied through unchanged.
RECURSIVE decode_binary(_)
decode_binary(s) ==
    IF s = <<>> THEN <<>>
    ELSE IF Head(s) # 37 THEN <<Head(s)>> \o decode_binary(Tail(s))
    ELSE LET rest == Tail(s)
         IN  IF Len(rest) < 2 THEN <<37>> \o rest
             ELSE IF from_hex_digit(rest[1]) = -1 THEN <<37>> \o decode_binary(rest)
             ELSE IF from_hex_digit(rest[2]) = -1
                  THEN <<37, rest[1]>> \o decode_binary(Tail(rest))
             ELSE <<16 * from_hex_digit(rest[1]) + from_hex_digit(rest[2])>>
                  \o decode_binary(SubSeq(rest, 3, Len(rest)))

IsCont(b) == b >= 128 /\ b <= 191

\* String::from_utf8: well-formed UTF-8 (no overlong forms, no surrogates).
RECURSIVE from_utf8_ok(_)
from_utf8_ok(s) ==
    IF s = <<>> THEN TRUE
    ELSE LET b == s[1]
             n == Len(s)
         IN  IF b < 128 THEN from_utf8_ok(Tail(s))
             ELSE IF b >= 194 /\ b <= 223
                  THEN n >= 2 /\ IsCont(s[2]) /\ from_utf8_ok(SubSeq(s, 3, n))
             ELSE IF b >= 224 /\ b <= 239
                  THEN /\ n >= 3
                       /\ IsCont(s[2]) /\ IsCont(s[3])
                       /\ (b = 224 => s[2] >= 160)
                       /\ (b = 237 => s[2] <= 159)
                       /\ from_utf8_ok(SubSeq(s, 4, n))
             ELSE IF b >= 240 /\ b <= 244
                  THEN /\ n >= 4
                       /\ IsCont(s[2]) /\ IsCont(s[3]) /\ IsCont(s[4])
                       /\ (b = 240 => s[2] >= 144)
                       /\ (b = 244 => s[2] <= 143)
                       /\ from_utf8_ok(SubSeq(s, 5, n))
             ELSE FALSE

\* urlencoding::decode: Err when the decoded bytes are not UTF-8.
decode(path) ==
    LET bytes == decode_binary(path)
    IN  [ok |-> from_utf8_ok(bytes), value |-> bytes]

\* &decoded[1..] panics unless byte index 1 is a char boundary of decoded:
\* index 1 must be within the string and must not fall inside a character.
SliceFrom1Panics(decoded) ==
    \/ Len(decoded) < 1
    \/ Len(decoded) > 1 /\ IsCont(decoded[2])

\* ------------------------------------------------------------------------
\* std::path on Unix (Path::components, PathBuf::join)
\* ------------------------------------------------------------------------

\* The non-empty segments of s between '/' separators, in order.
RECURSIVE Split(_, _)
Split(s, cur) ==
    LET done == IF cur = <<>> THEN <<>> ELSE <<cur>>
    IN  IF s = <<>> THEN done
        ELSE IF Head(s) = 47 THEN done \o Split(Tail(s), <<>>)
        ELSE Split(Tail(s), Append(cur, Head(s)))

Normal(name) == [kind |-> "Normal", name |-> name]
Special(kind) == [kind |-> kind, name |-> <<>>]

RECURSIVE SegmentComponents(_)
SegmentComponents(segs) ==
    IF segs = <<>> THEN <<>>
    ELSE LET seg == Head(segs)
             rest == SegmentComponents(Tail(segs))
         IN  IF seg = <<46>> THEN rest
             ELSE IF seg = <<46, 46>> THEN <<Special("ParentDir")>> \o rest
             ELSE <<Normal(seg)>> \o rest

\* Path::components: a leading '/' is RootDir, a leading "." is CurDir, every
\* other "." and every empty segment is dropped, ".." is ParentDir.
components(p) ==
    LET has_root == Len(p) > 0 /\ p[1] = 47
        include_cur_dir ==
            /\ ~has_root
            /\ Len(p) > 0 /\ p[1] = 46
            /\ (Len(p) = 1 \/ p[2] = 47)
    IN  (IF has_root THEN <<Special("RootDir")>> ELSE <<>>)
        \o (IF include_cur_dir THEN <<Special("CurDir")>> ELSE <<>>)
        \o SegmentComponents(Split(p, <<>>))

\* PathBuf::join: an absolute rel replaces base; otherwise rel is appended,
\* after a separator when base does not end with one.
join(base, rel) ==
    IF Len(rel) > 0 /\ rel[1] = 47 THEN rel
    ELSE IF base = <<>> \/ EndsWithSlash(base) THEN base \o rel
    ELSE base \o <<47>> \o rel

\* ------------------------------------------------------------------------
\* sanitized_relative_path (main.rs:163-172)
\* ------------------------------------------------------------------------

\* Variant: a root component is let through.
AllowedComponentOrRoot(c) == c.kind \in { "Normal", "CurDir", "RootDir" }

\* Variant: a parent-directory component is let through.
AllowedComponentOrParent(c) == c.kind \in { "Normal", "CurDir", "ParentDir" }

\* The components the sanitizer lets through.
AllowedComponent(c) == c.kind \in { "Normal", "CurDir" }

\* Some(rel.to_path_buf()) or None.
sanitized_relative_path(path) ==
    IF \A i \in DOMAIN components(path) : AllowedComponent(components(path)[i])
    THEN [some |-> TRUE, rel |-> path]
    ELSE [some |-> FALSE, rel |-> <<>>]

\* ------------------------------------------------------------------------
\* The filesystem the server reads (fs::metadata, Path::is_file, fs::read)
\* ------------------------------------------------------------------------

\* base_dir as main hands it to handle_request: canonical, absolute: "/b".
BaseDir == <<47, 98>>

\* "index.html"
IndexHtml == <<105, 110, 100, 101, 120, 46, 104, 116, 109, 108>>

\* Directory entries that may or may not exist, by their names from the root:
\* /b/index.html, /b/a, /b/a/index.html inside the base directory and
\* /a outside of it.
KeyIndex == << <<98>>, IndexHtml >>
KeyA == << <<98>>, <<97>> >>
KeyAIndex == << <<98>>, <<97>>, IndexHtml >>
KeyOutside == << <<97>> >>

Nodes == { KeyIndex, KeyA, KeyAIndex, KeyOutside }

Absent == [kind |-> "absent", content |-> <<>>, readable |-> TRUE]
Dir == [kind |-> "dir", content |-> <<>>, readable |-> TRUE]
File(c, r) == [kind |-> "file", content |-> c, readable |-> r]

\* Sample files: each content readable, and one file whose read is denied.
FileEntries == { File(c, TRUE) : c \in Contents } \cup { File(<<120, 121>>, FALSE) }

\* The samples for /b/index.html: no empty file.
IndexEntries == { e \in FileEntries : e.content # <<>> }

\* The file outside the base directory always exists and holds a secret.
OutsideFile == File(<<115>>, TRUE)

FsStates ==
    { f \in [Nodes -> {Absent, Dir} \cup FileEntries \cup {OutsideFile}] :
        /\ f[KeyOutside] = OutsideFile
        /\ f[KeyIndex] \in {Absent} \cup IndexEntries
        /\ f[KeyA] \in {Absent, Dir} \cup FileEntries
        /\ f[KeyAIndex] \in {Absent, Dir} \cup FileEntries
        /\ (f[KeyA].kind # "dir" => f[KeyAIndex] = Absent) }

\* The entry at a key; the root and the base directory are directories.
EntryAt(f, key) ==
    IF key = <<>> \/ key = << <<98>> >> THEN Dir
    ELSE IF key \in Nodes THEN f[key]
    ELSE Absent

\* Kernel path resolution from the root: "." stays, ".." goes to the parent,
\* a name descends; every step needs the current entry to be a directory.
RECURSIVE Walk(_, _, _)
Walk(f, key, segs) ==
    IF segs = <<>> THEN [ok |-> EntryAt(f, key).kind # "absent", key |-> key]
    ELSE IF EntryAt(f, key).kind # "dir" THEN [ok |-> FALSE, key |-> key]
    ELSE IF Head(segs) = <<46>> THEN Walk(f, key, Tail(segs))
    ELSE IF Head(segs) = <<46, 46>>
         THEN Walk(f, IF key = <<>> THEN key ELSE SubSeq(key, 1, Len(key) - 1),
                   Tail(segs))
    ELSE Walk(f, Append(key, Head(segs)), Tail(segs))

\* The entry an absolute path names, Absent when resolution fails; a path
\* with a trailing '/' names directories only.
Resolve(f, p) ==
    LET w == Walk(f, <<>>, Split(p, <<>>))
        e == EntryAt(f, w.key)
    IN  IF ~w.ok THEN Absent
        ELSE IF EndsWithSlash(p) /\ e.kind # "dir" THEN Absent
        ELSE e

\* fs::metadata(p): Err, or the entry's type and length.
metadata(f, p) ==
    LET e == Resolve(f, p)
    IN  [ok |-> e.kind # "absent",
         is_dir |-> e.kind = "dir",
         is_file |-> e.kind = "file",
         len |-> Len(e.content)]

\* Path::is_file: metadata succeeds and names a regular file.
is_file(f, p) == metadata(f, p).ok /\ metadata(f, p).is_file

\* fs::read(p): Err for a missing entry, a directory or a file that may not
\* be read; otherwise the content.
read(f, p) ==
    LET e == Resolve(f, p)
    IN  [ok |-> e.kind = "file" /\ e.readable, data |-> e.content]

\* ------------------------------------------------------------------------
\* Responses (response_with_status, header, build_file_response)
\* ------------------------------------------------------------------------

\* "Bad Request", "Not Found", "Method Not Allowed", "Internal Server Error"
BadRequest == <<66, 97, 100, 32, 82, 101, 113, 117, 101, 115, 116>>
NotFound == <<78, 111, 116, 32, 70, 111, 117, 110, 100>>
MethodNotAllowed ==
    <<77, 101, 116, 104, 111, 100, 32, 78, 111, 116, 32,
      65, 108, 108, 111, 119, 101, 100>>
InternalServerError ==
    <<73, 110, 116, 101, 114, 110, 97, 108, 32, 83, 101, 114, 118, 101, 114, 32,
      69, 114, 114, 111, 114>>

\* A response holds the headers main.rs adds, by name.
NoHeaders == [n \in {} |-> <<>>]
header(name, value) == name :> value

\* Response::from_data(data).with_status_code(status)
from_data(data, status) == [status |-> status, headers |-> NoHeaders, body |-> data]
add_header(response, h) == [response EXCEPT !.headers = @ @@ h]

NoResponse == from_data(<<>>, 0)

\* Variant: the text is the body for HEAD too.
response_with_status_any(status, method, body) == from_data(body, status)

\* main.rs:196-206: no body for HEAD, the text for every other method.
response_with_status(status, method, body) ==
    IF method = "HEAD" THEN from_data(<<>>, status) ELSE from_data(body, status)

\* mime_guess::from_path(path).first_or_octet_stream().essence_str(), for
\* the names of this filesystem: ".html" or no known extension.
mime(path) ==
    IF Len(path) >= 5 /\ SubSeq(path, Len(path) - 4, Len(path)) = <<46, 104, 116, 109, 108>>
    THEN "text/html"
    ELSE "application/octet-stream"

\* ------------------------------------------------------------------------
\* handle_request and route_request, one operator per step.  A step yields
\* an outcome: a finished (status, response), a path for the next step, or
\* a panic.  steps lists what the step did, in order.
\* ------------------------------------------------------------------------

Finished(status, response, steps) ==
    [kind |-> "response", status |-> status, response |-> response,
     path |-> <<>>, len |-> 0, steps |-> steps]
Continue(kind, path, len, steps) ==
    [kind |-> kind, status |-> 0, response |-> NoResponse,
     path |-> path, len |-> len, steps |-> steps]

\* Variant: POST is routed like GET.
is_routed_post(method) == method \in { "GET", "HEAD", "POST" }

\* main.rs:102: the methods that reach route_request.
is_routed(method) == method \in { "GET", "HEAD" }

\* Variant: the redirect is decided after decoding, for decodable paths only.
needs_redirect_decoded(path) ==
    Len(path) > 1 /\ EndsWithSlash(path) /\ decode(path).ok

\* main.rs:119
needs_redirect(path) == Len(path) > 1 /\ EndsWithSlash(path)

\* main.rs:120
location(path) == trim_end_matches(path)

\* Variant: no root mapping, "/" goes through the sanitizer like any path.
is_root_never(decoded) == FALSE

\* main.rs:131
is_root(decoded) == decoded = <<47>>

\* main.rs:119-139: from the request path to the target, or to a response.
route_start(path, method) ==
    IF needs_redirect(path)
    THEN Finished(301, add_header(from_data(<<>>, 301), header("Location", location(path))),
                  <<"slash">>)
    ELSE LET d == decode(path)
         IN  IF ~d.ok
             THEN Finished(400, response_with_status(400, method, BadRequest),
                           <<"slash", "decode">>)
             ELSE IF is_root(d.value)
             THEN Continue("stat", join(BaseDir, IndexHtml), 0,
                           <<"slash", "decode", "root">>)
             ELSE IF SliceFrom1Panics(d.value)
             THEN Continue("panic", <<>>, 0, <<"slash", "decode", "slice">>)
             ELSE LET rel == sanitized_relative_path(Tail(d.value))
                  IN  IF rel.some
                      THEN Continue("stat", join(BaseDir, rel.rel), 0,
                                    <<"slash", "decode", "slice", "sanitize">>)
                      ELSE Finished(404, response_with_status(404, method, NotFound),
                                    <<"slash", "decode", "slice", "sanitize">>)

\* main.rs:101-108: method dispatch.
dispatch(method, path) ==
    IF is_routed(method) THEN route_start(path, method)
    ELSE Finished(405,
                  add_header(response_with_status(405, method, MethodNotAllowed),
                             header("Allow", "GET, HEAD")),
                  <<>>)

\* main.rs:141-143, 150-151: fs::metadata(&target).
stat_step(f, target, method) ==
    LET meta == metadata(f, target)
    IN  IF ~meta.ok
        THEN Finished(404, response_with_status(404, method, NotFound), <<"stat">>)
        ELSE IF meta.is_dir THEN Continue("index", target, 0, <<"stat">>)
        ELSE Continue("meta", target, 0, <<"stat">>)

\* Variant: Path::exists instead of Path::is_file.
index_exists(f, index) == metadata(f, index).ok

\* main.rs:144
index_is_file(f, index) == is_file(f, index)

\* main.rs:143-148: the directory's index.html becomes the target when it
\* is a regular file.
index_step(f, target, method) ==
    LET index == join(target, IndexHtml)
    IN  IF index_is_file(f, index) THEN Continue("meta", index, 0, <<"index">>)
        ELSE Finished(404, response_with_status(404, method, NotFound), <<"index">>)

\* build_file_response failed (main.rs:156-159).
build_failed(method, steps) ==
    Finished(500, response_with_status(500, method, InternalServerError), steps)

\* main.rs:178-183, 189-193: fs::metadata(path)?.len(), and for HEAD the
\* whole response.
meta_step(f, path, method) ==
    LET meta == metadata(f, path)
    IN  IF ~meta.ok THEN build_failed(method, <<"meta">>)
        ELSE IF method = "HEAD"
        THEN Finished(200,
                      add_header(add_header(from_data(<<>>, 200),
                                            header("Content-Type", mime(path))),
                                 header("Content-Length", to_string(meta.len))),
                      <<"meta">>)
        ELSE Continue("read", path, meta.len, <<"meta">>)

\* main.rs:185-189: fs::read(path)? is the body.
read_step(f, path, method) ==
    LET r == read(f, path)
    IN  IF ~r.ok THEN build_failed(method, <<"read">>)
        ELSE Finished(200,
                      add_header(from_data(r.data, 200), header("Content-Type", mime(path))),
                      <<"read">>)

\* route_request run to its end on a filesystem that stays as it is.
RECURSIVE run_from(_, _, _)
run_from(f, method, o) ==
    IF o.kind = "stat" THEN run_from(f, method, stat_step(f, o.path, method))
    ELSE IF o.kind = "index" THEN run_from(f, method, index_step(f, o.path, method))
    ELSE IF o.kind = "meta" THEN run_from(f, method, meta_step(f, o.path, method))
    ELSE IF o.kind = "read" THEN run_from(f, method, read_step(f, o.path, method))
    ELSE o

serve(f, method, path) == run_from(f, method, dispatch(method, path))

\* ------------------------------------------------------------------------
\* Startup: main and bind_server (main.rs:9-89)
\* ------------------------------------------------------------------------

\* The command line holds at most MaxArgs arguments.
MaxArgs == 2

\* main.rs:34
base_port == 8000

\* main.rs:35
max_retries == 25

\* What Server::http(&addr) returns: Ok, written <<>>, or an error as the
\* chain of its causes, outermost first (Error::source).  Address in use,
\* bare and wrapped in another error, and permission denied.
BindResults ==
    { <<>>, <<"AddrInUse">>, <<"Other", "AddrInUse">>, <<"PermissionDenied">> }

\* Variant: every bind error counts as address in use.
is_addr_in_use_any(err) == TRUE

\* main.rs:78-89: some error of the chain is io::ErrorKind::AddrInUse.
RECURSIVE is_addr_in_use(_)
is_addr_in_use(err) ==
    IF err = <<>> THEN FALSE
    ELSE IF Head(err) = "AddrInUse" THEN TRUE
    ELSE is_addr_in_use(Tail(err))

\* Variant: the offset is left out of the port.
port_of_base(base, off) == base

\* main.rs:47: base_port + offset, in u16.
port_of(base, off) == (base + off) % 65536

\* Variant: one argument too many is let through.
too_many_args_lax(n) == n > 2

\* main.rs:11-16: a second argument follows the directory.
too_many_args(n) == n > 1

\* main.rs:53: the next port is tried.
should_retry(addr_in_use, off) == addr_in_use /\ off < max_retries

\* ------------------------------------------------------------------------
\* State
\* ------------------------------------------------------------------------

VARIABLES
    fs,         \* the filesystem, which the server only reads
    pc,         \* where the process is: "accept" between requests, a step
                \* of the request in hand, or "panicked"
    method,     \* handle_request: request.method()
    url,        \* handle_request: request.url()
    path,       \* handle_request: url before its first '?'
    target,     \* route_request: the path to stat next, then the file to serve
    len,        \* build_file_response: fs::metadata(path)?.len()
    status,     \* handle_request: the status route_request returned
    response,   \* handle_request: the response to send
    log,        \* the access-log lines of the request in hand
    steps,      \* history: the steps taken for the request in hand
    accessed,   \* history: the paths handed to the filesystem for it
    dirty,      \* history: the filesystem changed while it was handled
    seen,       \* history: route_request's last check found a file that can be read
    sent,       \* handle_request: what request.respond returned
    argc,       \* main: the number of command-line arguments
    base_dir,   \* main: base_dir: "none", "raw" or "canonical"
    is_dir,     \* history: what base_dir.is_dir() returned, "unknown" before
    offset,     \* bind_server: offset
    port,       \* main: the port bind_server returned
    attempts,   \* history: the ports handed to Server::http
    last_err,   \* bind_server: the result of the last Server::http
    announced,  \* the port of the "Serving HTTP on" line
    exit_code   \* the code the process exited with, -1 while it runs

startup == <<argc, base_dir, is_dir, offset, port, attempts, last_err, announced, exit_code>>

request == <<method, url, path, target, len, status, response, log,
             steps, accessed, dirty, seen, sent>>

vars == <<fs, pc, request, startup>>

\* The process starts: nothing is parsed, checked or bound yet.
Init ==
    /\ fs \in FsStates
    /\ pc = "start"
    /\ argc \in 0..MaxArgs
    /\ base_dir = "none"
    /\ is_dir = "unknown"
    /\ offset = 0
    /\ port = 0
    /\ attempts = <<>>
    /\ last_err = <<>>
    /\ announced = 0
    /\ exit_code = -1
    /\ seen = FALSE
    /\ sent = "none"
    /\ method = ""
    /\ url = <<>>
    /\ path = <<>>
    /\ target = <<>>
    /\ len = 0
    /\ status = 0
    /\ response = NoResponse
    /\ log = <<>>
    /\ steps = <<>>
    /\ accessed = <<>>
    /\ dirty = FALSE

\* The effect of a step's outcome o on the request in hand.
Apply(o) ==
    /\ pc' = IF o.kind = "response" THEN "respond"
             ELSE IF o.kind = "panic" THEN "panicked"
             ELSE o.kind
    /\ target' = IF o.kind \in { "response", "panic" } THEN target ELSE o.path
    /\ len' = o.len
    /\ status' = o.status
    /\ response' = o.response
    /\ steps' = steps \o o.steps

\* The process ends with code.
Exit(code) ==
    /\ pc' = "exited"
    /\ exit_code' = code

\* main.rs:10-19: the directory is the first argument or the current
\* directory (a failure of env::current_dir panics, exit code 101); a
\* second argument ends the process with code 2.
ParseArgs ==
    /\ pc = "start"
    /\ \E cwd_ok \in BOOLEAN :
          IF argc = 0 /\ ~cwd_ok
          THEN Exit(101) /\ UNCHANGED base_dir
          ELSE /\ base_dir' = "raw"
               /\ IF too_many_args(argc)
                  THEN Exit(2)
                  ELSE pc' = "canonicalize" /\ UNCHANGED exit_code
    /\ UNCHANGED <<fs, request, argc, is_dir, offset, port, attempts, last_err, announced>>

\* main.rs:21-27: fs::canonicalize(&base_dir), code 2 when it fails.
Canonicalize ==
    /\ pc = "canonicalize"
    /\ \E ok \in BOOLEAN :
          IF ok
          THEN base_dir' = "canonical" /\ pc' = "check_dir" /\ UNCHANGED exit_code
          ELSE Exit(2) /\ UNCHANGED base_dir
    /\ UNCHANGED <<fs, request, argc, is_dir, offset, port, attempts, last_err, announced>>

\* main.rs:29-36: base_dir.is_dir(), code 2 when it is not; then
\* bind_server is entered.
CheckDir ==
    /\ pc = "check_dir"
    /\ \E dir \in BOOLEAN :
          /\ is_dir' = IF dir THEN "yes" ELSE "no"
          /\ IF dir
             THEN pc' = "bind" /\ UNCHANGED exit_code
             ELSE Exit(2)
    /\ UNCHANGED <<fs, request, argc, base_dir, offset, port, attempts, last_err,
                   announced>>

\* main.rs:46-67: one turn of bind_server's loop: Server::http on the next
\* port; its server is returned, or the next port is tried, or the process
\* ends with code 1.
BindAttempt ==
    /\ pc = "bind"
    /\ offset <= max_retries
    /\ \E result \in BindResults :
          /\ attempts' = Append(attempts, port_of(base_port, offset))
          /\ last_err' = result
          /\ IF result = <<>>
             THEN /\ pc' = "bound"
                  /\ port' = port_of(base_port, offset)
                  /\ UNCHANGED <<offset, exit_code>>
             ELSE IF should_retry(is_addr_in_use(result), offset)
             THEN /\ offset' = offset + 1
                  /\ UNCHANGED <<pc, port, exit_code>>
             ELSE /\ Exit(1)
                  /\ UNCHANGED <<offset, port>>
    /\ UNCHANGED <<fs, request, argc, base_dir, is_dir, announced>>

\* main.rs:38: the line that announces the port.
Announce ==
    /\ pc = "bound"
    /\ announced' = port
    /\ pc' = "serving"
    /\ UNCHANGED <<fs, request, argc, base_dir, is_dir, offset, port, attempts,
                   last_err, exit_code>>

\* main.rs:40: the accept loop is entered with the server and base_dir;
\* the other locals of startup play no further part.
EnterLoop ==
    /\ pc = "serving"
    /\ pc' = "accept"
    /\ argc' = 0
    /\ offset' = 0
    /\ port' = 0
    /\ attempts' = <<>>
    /\ last_err' = <<>>
    /\ announced' = 0
    /\ UNCHANGED <<fs, request, base_dir, is_dir, exit_code>>

\* main.rs:40-41, 91-108, 119-139: the accept loop yields a request;
\* handle_request reads its method and URL, drops the query, dispatches on
\* the method and routes up to the first filesystem call.
Receive ==
    /\ pc = "accept"
    /\ \E m \in Methods, u \in Urls :
          /\ method' = m
          /\ url' = u
          /\ path' = BeforeQuery(u)
          /\ Apply(dispatch(m, BeforeQuery(u)))
    /\ UNCHANGED <<fs, log, accessed, dirty, seen, sent, startup>>

\* main.rs:141-152: fs::metadata(&target).
StatTarget ==
    /\ pc = "stat"
    /\ Apply(stat_step(fs, target, method))
    /\ accessed' = Append(accessed, target)
    /\ seen' = read(fs, target).ok
    /\ UNCHANGED <<fs, method, url, path, log, dirty, sent, startup>>

\* main.rs:143-148: index.is_file().
CheckIndex ==
    /\ pc = "index"
    /\ Apply(index_step(fs, target, method))
    /\ accessed' = Append(accessed, join(target, IndexHtml))
    /\ seen' = read(fs, join(target, IndexHtml)).ok
    /\ UNCHANGED <<fs, method, url, path, log, dirty, sent, startup>>

\* main.rs:154, 178-183: build_file_response up to fs::metadata(path)?.
BuildMeta ==
    /\ pc = "meta"
    /\ Apply(meta_step(fs, target, method))
    /\ accessed' = Append(accessed, target)
    /\ UNCHANGED <<fs, method, url, path, log, dirty, seen, sent, startup>>

\* main.rs:185-193, 155-159: fs::read(path)? and the response.
BuildRead ==
    /\ pc = "read"
    /\ Apply(read_step(fs, target, method))
    /\ accessed' = Append(accessed, target)
    /\ UNCHANGED <<fs, method, url, path, log, dirty, seen, sent, startup>>

\* main.rs:110-111, 212-218: request.respond(response), which may fail
\* and whose result is dropped, then log_request.
Respond ==
    /\ pc = "respond"
    /\ sent' \in { "ok", "failed" }
    /\ log' = Append(log, [method |-> method, path |-> path, status |-> status])
    /\ pc' = "logged"
    /\ UNCHANGED <<fs, method, url, path, target, len, status, response,
                   steps, accessed, dirty, seen, startup>>

\* Variant: the last response is kept for the requests to come.
ReturnKeepsResponse ==
    /\ pc = "logged"
    /\ pc' = "accept"
    /\ method' = ""
    /\ url' = <<>>
    /\ path' = <<>>
    /\ target' = <<>>
    /\ len' = 0
    /\ log' = <<>>
    /\ steps' = <<>>
    /\ accessed' = <<>>
    /\ dirty' = FALSE
    /\ seen' = FALSE
    /\ sent' = "none"
    /\ UNCHANGED <<fs, status, response, startup>>

\* main.rs:112, 40: handle_request returns, its locals are dropped, and
\* the loop asks for the next request.
Return ==
    /\ pc = "logged"
    /\ pc' = "accept"
    /\ method' = ""
    /\ url' = <<>>
    /\ path' = <<>>
    /\ target' = <<>>
    /\ len' = 0
    /\ status' = 0
    /\ response' = NoResponse
    /\ log' = <<>>
    /\ steps' = <<>>
    /\ accessed' = <<>>
    /\ dirty' = FALSE
    /\ seen' = FALSE
    /\ sent' = "none"
    /\ UNCHANGED <<fs, startup>>

\* The filesystem states one change of one entry away from f.
OneChange(f) ==
    { g \in FsStates : Cardinality({ k \in Nodes : g[k] # f[k] }) = 1 }

\* The environment changes an entry of the filesystem, and so, change by
\* change, the filesystem to any other state: between requests, or before
\* any filesystem call of the request in hand.  Once the last call of a
\* request is made the response is fixed, and a change after it is the
\* change before the next request.
FsChange ==
    /\ pc \in { "accept", "stat", "index", "meta", "read" }
    /\ fs' \in OneChange(fs)
    /\ dirty' = (pc # "accept")
    /\ UNCHANGED <<pc, method, url, path, target, len, status, response, log,
                   steps, accessed, seen, sent, startup>>

Next ==
    \/ ParseArgs
    \/ Canonicalize
    \/ CheckDir
    \/ BindAttempt
    \/ Announce
    \/ EnterLoop
    \/ Receive
    \/ StatTarget
    \/ CheckIndex
    \/ BuildMeta
    \/ BuildRead
    \/ Respond
    \/ Return
    \/ FsChange

Spec == Init /\ [][Next]_vars

\* ------------------------------------------------------------------------
\* Vocabulary of the properties
\* ------------------------------------------------------------------------

Took(step) == \E i \in DOMAIN steps : steps[i] = step

\* A request is in hand.
InRequest == pc \in { "stat", "index", "meta", "read", "respond", "logged", "panicked" }

\* The response of the request in hand has been built.
Built == pc \in { "respond", "logged" }

GetOrHead == method \in { "GET", "HEAD" }

\* s has a ".." component: two dots between separators or the ends of s.
HasParentRef(s) ==
    \E i \in 1..(Len(s) - 1) :
        /\ s[i] = 46 /\ s[i + 1] = 46
        /\ (i = 1 \/ s[i - 1] = 47)
        /\ (i + 1 = Len(s) \/ s[i + 2] = 47)

\* s starts at the root.
HasRoot(s) == Len(s) > 0 /\ s[1] = 47

\* p is lexically inside the base directory: the base directory's own
\* bytes, then nothing or a separator, and no ".." component after them.
Contained(p) ==
    /\ Len(p) >= Len(BaseDir)
    /\ SubSeq(p, 1, Len(BaseDir)) = BaseDir
    /\ (Len(p) = Len(BaseDir) \/ p[Len(BaseDir) + 1] = 47)
    /\ ~HasParentRef(SubSeq(p, Len(BaseDir) + 1, Len(p)))

\* The decoded path with its first character stripped (main.rs:134).
Relative == Tail(decode(path).value)

\* The value of a header of the response.
HasHeader(name) == name \in DOMAIN response.headers
Header(name) == response.headers[name]

\* The number a string of decimal digits denotes.
RECURSIVE ParseDecimal(_)
ParseDecimal(digits) ==
    IF digits = <<>> THEN 0
    ELSE 10 * ParseDecimal(SubSeq(digits, 1, Len(digits) - 1)) + (digits[Len(digits)] - 48)

\* ------------------------------------------------------------------------
\* C1
\* ------------------------------------------------------------------------

\* C1: whenever the relative path handed to the sanitizer has a ".." or a
\* root component, at any position, the sanitizer returns None, the
\* response is 404 (never 200) and no file was touched for the request.
C1_TraversalIs404 ==
    (Took("sanitize") /\ (HasParentRef(Relative) \/ HasRoot(Relative)))
        => /\ ~sanitized_relative_path(Relative).some
           /\ Built
           /\ status = 404 /\ response.status = 404
           /\ accessed = <<>>

\* A percent-encoded ".." behind a root component was rejected: "//%2e%2e".
C1_Witness ==
    /\ pc = "respond"
    /\ Took("sanitize")
    /\ HasRoot(Relative) /\ HasParentRef(Relative)
    /\ path # decode(path).value
    /\ status = 404

\* ------------------------------------------------------------------------
\* C2
\* ------------------------------------------------------------------------

\* C2: every path the server stats or reads, and the path it is about to
\* stat or read, is lexically inside the base directory.
C2_AccessesContained ==
    /\ \A i \in DOMAIN accessed : Contained(accessed[i])
    /\ (pc \in { "stat", "index", "meta", "read" } => Contained(target))
    /\ (pc = "index" => Contained(join(target, IndexHtml)))

\* "/b/./a" was stat'ed and read, and served: the request was "../a".
C2_Witness ==
    /\ pc = "respond"
    /\ status = 200
    /\ Len(accessed) = 3
    /\ accessed[1] = BaseDir \o <<47, 46, 47, 97>>

\* ------------------------------------------------------------------------
\* C3
\* ------------------------------------------------------------------------

\* C3: every request ends in a response with a status of the list, and no
\* request makes the process panic.
C3_NoRequestPanics ==
    /\ pc # "panicked"
    /\ (Built => status \in { 200, 301, 400, 404, 405, 500 })

\* ------------------------------------------------------------------------
\* C4
\* ------------------------------------------------------------------------

TrailingSlashRequest == Built /\ GetOrHead /\ Len(path) > 1 /\ EndsWithSlash(path)

\* C4: a GET or HEAD of a path longer than one byte that ends in '/' gets
\* 301 with no body and Location equal to the path less exactly one
\* trailing '/'; the root path is never redirected.
C4_LocationStripsOne ==
    /\ TrailingSlashRequest
          => /\ status = 301 /\ response.status = 301
             /\ response.body = <<>>
             /\ HasHeader("Location")
             /\ Header("Location") = SubSeq(path, 1, Len(path) - 1)
    /\ (Built /\ path = <<47>> => status # 301)

\* What the code sends instead: Location is the path less all of its
\* trailing '/': a prefix of the path that does not end in '/', followed in
\* the path by '/' only (empty for a path of slashes only).
LocationStripsAll ==
    /\ TrailingSlashRequest
          => /\ status = 301 /\ response.status = 301
             /\ response.body = <<>>
             /\ HasHeader("Location")
             /\ LET loc == Header("Location")
                IN  /\ Len(loc) < Len(path)
                    /\ loc = SubSeq(path, 1, Len(loc))
                    /\ ~EndsWithSlash(loc)
                    /\ \A i \in (Len(loc) + 1)..Len(path) : path[i] = 47
    /\ (Built /\ path = <<47>> => status # 301)

\* ------------------------------------------------------------------------
\* C5
\* ------------------------------------------------------------------------

\* C5: a request with any other method than GET or HEAD gets 405 with
\* Allow: GET, HEAD and no routing step is taken for it, whatever its path;
\* and no GET or HEAD request gets 405.
C5_MethodDispatchFirst ==
    /\ (InRequest /\ ~GetOrHead)
          => /\ Built
             /\ status = 405 /\ response.status = 405
             /\ HasHeader("Allow") /\ Header("Allow") = "GET, HEAD"
             /\ steps = <<>>
             /\ accessed = <<>>
    /\ (status = 405 \/ response.status = 405 => ~GetOrHead)

\* A POST to a path with a trailing slash and a ".." got 405.
C5_Witness ==
    /\ pc = "respond"
    /\ method = "POST"
    /\ Len(path) > 1 /\ EndsWithSlash(path) /\ HasParentRef(path)
    /\ status = 405

\* ------------------------------------------------------------------------
\* C6
\* ------------------------------------------------------------------------

\* The place of a step in route_request.
StepRank(step) ==
    CASE step = "slash" -> 1
      [] step = "decode" -> 2
      [] step = "root" -> 3
      [] step = "slice" -> 3
      [] step = "sanitize" -> 4
      [] step = "stat" -> 5
      [] step = "index" -> 6
      [] step = "meta" -> 7
      [] step = "read" -> 8

\* C6: the steps of route_request are taken in the fixed order and the
\* first one that decides ends the routing: a trailing slash gives 301
\* whatever else the path holds; else an undecodable path gives 400 with
\* nothing sanitized or stat'ed; else a path the sanitizer rejects gives 404
\* with nothing stat'ed; and 500 needs a stat of the target that succeeded.
C6_StepsInOrder ==
    /\ \A i, j \in DOMAIN steps : i < j => StepRank(steps[i]) < StepRank(steps[j])
    /\ (pc # "accept" /\ GetOrHead) => steps[1] = "slash"
    /\ (pc # "accept" /\ GetOrHead /\ Len(path) > 1 /\ EndsWithSlash(path))
          => Built /\ status = 301 /\ steps = <<"slash">>
    /\ (pc # "accept" /\ GetOrHead /\ ~(Len(path) > 1 /\ EndsWithSlash(path))
            /\ ~from_utf8_ok(decode_binary(path)))
          => Built /\ status = 400 /\ steps = <<"slash", "decode">> /\ accessed = <<>>
    /\ (Took("sanitize") /\ (HasParentRef(Relative) \/ HasRoot(Relative)))
          => Built /\ status = 404 /\ accessed = <<>>
             /\ steps = <<"slash", "decode", "slice", "sanitize">>
    /\ (status = 500 => \E i \in DOMAIN steps : steps[i] = "stat" /\ i < Len(steps))
    /\ (Built /\ ~Took("stat") => accessed = <<>>)

\* An undecodable path that ends in a slash got 301: "/%FF/".
C6_Witness ==
    /\ pc = "respond"
    /\ GetOrHead
    /\ ~from_utf8_ok(decode_binary(path))
    /\ HasRoot(path)
    /\ status = 301
    /\ steps = <<"slash">>

\* ------------------------------------------------------------------------
\* C7
\* ------------------------------------------------------------------------

\* C7: a response to HEAD has an empty body whatever its status; a
\* response to GET has the file's content for 200 and the status phrase
\* for 400, 404 and 500, and no body for 301 only.
C7_HeadHasNoBody ==
    Built =>
        /\ (method = "HEAD" =>
                /\ response.body = <<>>
                /\ status \in { 200, 301, 400, 404, 500 })
        /\ (method = "GET" =>
                /\ status \in { 200, 301, 400, 404, 500 }
                /\ (status = 200 =>
                        /\ Resolve(fs, target).kind = "file"
                        /\ response.body = Resolve(fs, target).content)
                /\ (status = 301 => response.body = <<>>)
                /\ (status = 400 => response.body = BadRequest)
                /\ (status = 404 => response.body = NotFound)
                /\ (status = 500 => response.body = InternalServerError))
        /\ response.status = status

\* A HEAD request ended in 500.
C7_Witness ==
    /\ pc = "respond"
    /\ method = "HEAD"
    /\ status = 500

\* ------------------------------------------------------------------------
\* C8
\* ------------------------------------------------------------------------

\* The request in hand is answered and the filesystem is as it was when
\* the request arrived.
AnsweredOnStableFs == pc = "respond" /\ ~dirty

RootRequest == AnsweredOnStableFs /\ GetOrHead /\ path = <<47>>

\* <base>/index.html
BaseIndex == BaseDir \o <<47>> \o IndexHtml

\* C8 as claimed: "/" is answered from <base>/index.html without a
\* sanitizer call: 200 with the file's content when the file exists, 404
\* when it is absent.
C8_RootServesIndex ==
    RootRequest =>
        /\ ~Took("sanitize")
        /\ accessed # <<>> /\ \A i \in DOMAIN accessed : accessed[i] = BaseIndex
        /\ (fs[KeyIndex].kind = "file" =>
                /\ status = 200
                /\ (method = "GET" => response.body = fs[KeyIndex].content))
        /\ (fs[KeyIndex].kind = "absent" => status = 404)

\* C8 as amended: as claimed, but a GET gets 200 only when the file can be
\* read, and 500 when it exists and cannot be read.
C8_RootServesReadableIndex ==
    RootRequest =>
        /\ ~Took("sanitize")
        /\ accessed # <<>> /\ \A i \in DOMAIN accessed : accessed[i] = BaseIndex
        /\ (fs[KeyIndex].kind = "file" /\ (method = "HEAD" \/ fs[KeyIndex].readable) =>
                /\ status = 200
                /\ (method = "GET" => response.body = fs[KeyIndex].content))
        /\ (fs[KeyIndex].kind = "file" /\ method = "GET" /\ ~fs[KeyIndex].readable =>
                status = 500)
        /\ (fs[KeyIndex].kind = "absent" => status = 404)

\* A GET of "/" was answered 200 with the content of <base>/index.html.
C8_Witness ==
    /\ RootRequest
    /\ method = "GET"
    /\ status = 200
    /\ response.body = <<120, 121>>

\* ------------------------------------------------------------------------
\* C9
\* ------------------------------------------------------------------------

\* The sanitized target of the request in hand: the first path stat'ed.
DirectoryRequest ==
    /\ AnsweredOnStableFs /\ GetOrHead
    /\ ~EndsWithSlash(path)
    /\ Took("sanitize") /\ accessed # <<>>
    /\ Resolve(fs, accessed[1]).kind = "dir"

\* The index.html directly inside the sanitized target.
DirectoryIndex == Resolve(fs, accessed[1] \o
                              (IF EndsWithSlash(accessed[1]) THEN <<>> ELSE <<47>>)
                              \o IndexHtml)

IndexAppliedAtMostOnce == Cardinality({ i \in DOMAIN steps : steps[i] = "index" }) <= 1

\* What is served with 200 is a regular file, never a directory.
NoDirectoryListing ==
    Built /\ status = 200 /\ method = "GET"
        => /\ Resolve(fs, target).kind = "file"
           /\ response.body = Resolve(fs, target).content

\* C9 as claimed: a request for a directory gets 200 serving the
\* directory's index.html when that is a regular file, 404 otherwise.
C9_DirectoryServesIndex ==
    /\ DirectoryRequest =>
          /\ (DirectoryIndex.kind = "file" =>
                  /\ status = 200
                  /\ (method = "GET" => response.body = DirectoryIndex.content))
          /\ (DirectoryIndex.kind # "file" => status = 404)
    /\ IndexAppliedAtMostOnce
    /\ NoDirectoryListing

\* C9 as amended: as claimed, but a GET gets 200 only when index.html can
\* be read, and 500 when it is a regular file that cannot be read.
C9_DirectoryServesReadableIndex ==
    /\ DirectoryRequest =>
          /\ (DirectoryIndex.kind = "file" /\ (method = "HEAD" \/ DirectoryIndex.readable) =>
                  /\ status = 200
                  /\ (method = "GET" => response.body = DirectoryIndex.content))
          /\ (DirectoryIndex.kind = "file" /\ method = "GET" /\ ~DirectoryIndex.readable =>
                  status = 500)
          /\ (DirectoryIndex.kind # "file" => status = 404)
    /\ IndexAppliedAtMostOnce
    /\ NoDirectoryListing

\* A GET of "/a", a directory, was answered 200 with /b/a/index.html.
C9_Witness ==
    /\ DirectoryRequest
    /\ path = <<47, 97>>
    /\ method = "GET"
    /\ status = 200
    /\ target = BaseDir \o <<47, 97, 47>> \o IndexHtml
    /\ response.body = fs[KeyAIndex].content

\* ------------------------------------------------------------------------
\* C10
\* ------------------------------------------------------------------------

\* C10: on a filesystem that does not change, a HEAD that gets 200 carries
\* the file's size as Content-Length and a GET of the same resource gets
\* 200 with a body of that length; HEAD and GET get the same status.
C10_HeadAgreesWithGet ==
    (AnsweredOnStableFs /\ method = "HEAD") =>
        LET get == serve(fs, "GET", path)
        IN  /\ get.status = status
            /\ (status = 200 =>
                    /\ HasHeader("Content-Length")
                    /\ ParseDecimal(Header("Content-Length")) = Len(Resolve(fs, target).content)
                    /\ get.status = 200
                    /\ Len(get.response.body) = ParseDecimal(Header("Content-Length")))

\* The step-by-step handling of a request agrees with serve when the
\* filesystem did not change under it.
StepsAgreeWithServe ==
    AnsweredOnStableFs =>
        /\ serve(fs, method, path).status = status
        /\ serve(fs, method, path).response = response

\* ------------------------------------------------------------------------
\* Startup properties
\* ------------------------------------------------------------------------

\* The bind error names an address in use, at any depth of its causes.
InUse(err) == \E i \in 1..Len(err) : err[i] = "AddrInUse"

\* The ports tried so far are 8000, 8001, ... in this order.
TriedInOrder == \A i \in 1..Len(attempts) : attempts[i] = 8000 + (i - 1)

\* Every port tried before the last one was in use.
EarlierInUse == (pc = "bind" /\ offset > 0) => InUse(last_err)

\* C11: bind_server tries the ports upwards from 8000: with ports 8000 to
\* 8000+k-1 in use and 8000+k free (k <= 25) the server returned is bound
\* to 8000+k and this port is the one announced; with all of 8000..8025 in
\* use the process exits with code 1; no port above 8025 is ever tried.
C11_PortsTriedInOrder ==
    /\ TriedInOrder
    /\ EarlierInUse
    /\ \A i \in 1..Len(attempts) : attempts[i] <= 8025
    /\ pc = "bind" => Len(attempts) = offset
    /\ pc \in { "bound", "serving" }
          => /\ attempts # <<>>
             /\ last_err = <<>>
             /\ port = attempts[Len(attempts)]
             /\ port = 8000 + offset
    /\ pc = "serving" => announced = port
    /\ (pc = "exited" /\ attempts # <<>> /\ InUse(last_err))
          => /\ exit_code = 1
             /\ Len(attempts) = 26
             /\ attempts[26] = 8025

C11_Witness ==
    /\ pc = "serving"
    /\ attempts = <<8000, 8001, 8002>>
    /\ announced = 8002

\* Reached too: every port of the range was in use.
C11_AllInUse ==
    /\ pc = "exited"
    /\ exit_code = 1
    /\ Len(attempts) = 26
    /\ InUse(last_err)

\* main has passed its checks of the command line and the directory.
PastChecks == pc \in { "bind", "bound", "serving", "accept" } \/ InRequest

\* C12: with more than one argument the process exits with code 2; so it
\* does when the directory cannot be canonicalized or is not a directory;
\* each of these exits comes before any attempt to bind a port; the accept
\* loop is entered only with a canonical base directory that was found to
\* be a directory.
C12_StartupValidation ==
    /\ (argc > 1 /\ pc # "start") => (pc = "exited" /\ exit_code = 2)
    /\ (pc = "exited" /\ base_dir = "raw") => exit_code = 2
    /\ is_dir = "no" => (pc = "exited" /\ exit_code = 2)
    /\ exit_code = 2 => (pc = "exited" /\ attempts = <<>> /\ port = 0)
    /\ (pc \notin { "start", "exited" }) => exit_code = -1
    /\ pc = "canonicalize" => (base_dir = "raw" /\ is_dir = "unknown")
    /\ pc = "check_dir" => (base_dir = "canonical" /\ is_dir = "unknown")
    /\ PastChecks => (base_dir = "canonical" /\ is_dir = "yes")
    /\ attempts # <<>> => (base_dir = "canonical" /\ is_dir = "yes")

C12_Witness ==
    /\ pc = "exited"
    /\ exit_code = 2
    /\ argc = 2
    /\ base_dir = "raw"

\* Reached too: the directory cannot be canonicalized; it is no directory.
C12_NotCanonical ==
    /\ pc = "exited"
    /\ exit_code = 2
    /\ argc = 1
    /\ base_dir = "raw"

C12_NotADirectory ==
    /\ pc = "exited"
    /\ exit_code = 2
    /\ base_dir = "canonical"
    /\ is_dir = "no"

\* main.rs:9-38: startup alone, up to the accept loop.
StartupNext ==
    \/ ParseArgs
    \/ Canonicalize
    \/ CheckDir
    \/ BindAttempt
    \/ Announce
    \/ EnterLoop

\* Startup runs on the main thread and each of its calls returns, so a
\* step of startup that can be taken is taken.
StartupSpec == Init /\ [][StartupNext]_vars /\ WF_vars(StartupNext)

\* The last bind failed for another reason than an address in use.
OtherBindFailure == last_err # <<>> /\ ~InUse(last_err)

BindLoopSafety ==
    /\ OtherBindFailure
          => /\ pc = "exited"
             /\ exit_code = 1
             /\ Len(attempts) = offset + 1
    /\ (pc = "bind" /\ offset > 0) => InUse(last_err)
    /\ Len(attempts) <= 26
    /\ pc = "bind" => (offset <= 25 /\ Len(attempts) = offset)
    /\ exit_code = 1 => (pc = "exited" /\ attempts # <<>> /\ last_err # <<>>)
    /\ pc = "bound" => (last_err = <<>> /\ exit_code = -1)

\* C14: the bind loop tries the next port only after an address-in-use
\* failure; the first failure of another kind ends the process with code 1
\* and no further port is tried; at most 26 binds are attempted and the
\* loop always ends, with a bound server or with exit code 1.
C14_BindLoopEnds ==
    /\ []BindLoopSafety
    /\ (pc = "bind") ~> (pc = "bound" \/ (pc = "exited" /\ exit_code = 1))

C14_Witness ==
    /\ pc = "exited"
    /\ exit_code = 1
    /\ attempts = <<8000, 8001>>
    /\ last_err = <<"PermissionDenied">>

\* Reached too: an address in use wrapped in another error is retried.
C14_WrappedInUse ==
    /\ pc = "bind"
    /\ offset = 1
    /\ last_err = <<"Other", "AddrInUse">>

\* ------------------------------------------------------------------------
\* Changes of the filesystem under a request
\* ------------------------------------------------------------------------

\* route_request found a file that could be read and handed it to
\* build_file_response; at the builder's last call the file is gone.
FileDisappeared ==
    /\ Built /\ GetOrHead /\ Took("meta") /\ seen
    /\ Resolve(fs, target).kind = "absent"

\* The same, with the file still there and its read now denied.
FileBecameUnreadable ==
    /\ Built /\ GetOrHead /\ Took("meta") /\ seen
    /\ Resolve(fs, target).kind = "file"
    /\ ~Resolve(fs, target).readable

\* The response is the 500 of a failed build.
Is500 ==
    /\ status = 500
    /\ response.status = 500
    /\ response.body = IF method = "GET" THEN InternalServerError ELSE <<>>

\* C13: a file that disappears or becomes unreadable between the router's
\* stat and the builder's own stat and read, index.html included, gives
\* 500 Internal Server Error: no 404, no 200, no crash.
C13_RaceIs500 == (FileDisappeared \/ FileBecameUnreadable) => Is500

\* What holds: a file that disappears gives 500 under both methods, a file
\* that becomes unreadable gives 500 under GET.
RaceIs500WhenRead ==
    (FileDisappeared \/ (FileBecameUnreadable /\ method = "GET")) => Is500

\* Reached: 500 for index.html gone after the router's is_file.
IndexDisappeared == FileDisappeared /\ Took("index") /\ Is500

\* Reached: HEAD answers 200 for a file whose read is denied by then.
HeadOfUnreadableRace == FileBecameUnreadable /\ method = "HEAD" /\ status = 200

\* ------------------------------------------------------------------------
\* The access log
\* ------------------------------------------------------------------------

\* p is u up to its first '?', the whole of u when it has none.
IsPathOf(p, u) ==
    /\ Len(p) <= Len(u)
    /\ \A i \in 1..Len(p) : p[i] = u[i] /\ p[i] # 63
    /\ Len(p) < Len(u) => u[Len(p) + 1] = 63

\* One line is logged, after the send was attempted, with the status of
\* the response built and the path without its query.
LoggedOnce ==
    /\ Len(log) = 1
    /\ sent \in { "ok", "failed" }
    /\ log[1].method = method
    /\ log[1].status = response.status
    /\ IsPathOf(log[1].path, url)

\* Nothing is logged before the send is attempted.
NotLoggedYet == log = <<>> /\ sent = "none"

\* C15: every request handled leaves exactly one line in the access log,
\* written after the attempt to send the response, also when that send
\* failed; its status is that of the response built and its path is the
\* request's path without the query.
C15_OneLogLinePerRequest ==
    /\ pc \in { "stat", "index", "meta", "read", "respond" } => NotLoggedYet
    /\ pc \in { "logged", "panicked" } => LoggedOnce

\* What holds: every request that is answered is logged so; the request
\* whose handling panics leaves no line.
AnsweredIsLoggedOnce ==
    /\ pc \in { "stat", "index", "meta", "read", "respond", "panicked" } => NotLoggedYet
    /\ pc = "logged" => LoggedOnce

\* Reached: a line is logged for a response whose send failed.
LoggedAfterFailedSend ==
    /\ pc = "logged"
    /\ sent = "failed"
    /\ log = << [method |-> "GET", path |-> <<47, 97>>, status |-> 200] >>
    /\ url = <<47, 97, 63, 47>>

\* ------------------------------------------------------------------------
\* History independence
\* ------------------------------------------------------------------------

\* Between two requests the process holds nothing of the requests before:
\* its state is the filesystem's and the base directory.
NothingKept ==
    pc = "accept" =>
        /\ method = "" /\ url = <<>> /\ path = <<>> /\ target = <<>>
        /\ len = 0 /\ status = 0 /\ response = NoResponse
        /\ base_dir = "canonical"

\* The response is the one that method, path and the filesystem as it is
\* give, whatever was asked before.
ResponseIsFunction ==
    AnsweredOnStableFs =>
        LET r == serve(fs, method, path)
        IN  /\ r.kind = "response"
            /\ status = r.status
            /\ response.status = r.response.status
            /\ response.headers = r.response.headers
            /\ response.body = r.response.body

\* A step of the handling of a request leaves the filesystem and the base
\* directory as they are.
ReadOnlyStep ==
    (pc' # pc /\ (pc = "accept" \/ InRequest))
        => (fs' = fs /\ base_dir' = base_dir)

\* C16: the response to a request is a function of its method, its path
\* and the filesystem as it is when the request is handled; no request
\* before it changes the response, and no request changes the base
\* directory or the filesystem.
C16_HistoryIndependent ==
    /\ []NothingKept
    /\ []ResponseIsFunction
    /\ [][ReadOnlyStep]_vars

C16_Witness ==
    /\ AnsweredOnStableFs
    /\ method = "GET"
    /\ url = <<47, 97>>
    /\ status = 200
    /\ response.body = <<120, 121>>
    /\ fs[KeyA] = File(<<120, 121>>, TRUE)

\* ------------------------------------------------------------------------
\* The query
\* ------------------------------------------------------------------------

\* The URL up to its first '?'.
PathOf(u) == CHOOSE p \in { SubSeq(u, 1, n) : n \in 0..Len(u) } : IsPathOf(p, u)

\* The URL carries a query.
HasQuery(u) == \E i \in 1..Len(u) : u[i] = 63

\* C17: the query is dropped before routing: the path is the URL up to its
\* first '?', the response to a GET or HEAD request is the one its URL
\* without the query gets, so that URLs that differ after the '?' only are
\* answered alike, and the Location of a 301 never holds the query.
C17_QueryDiscarded ==
    /\ InRequest => IsPathOf(path, url)
    /\ (AnsweredOnStableFs /\ GetOrHead)
          => LET bare == serve(fs, method, PathOf(url))
             IN  /\ status = bare.status
                 /\ response.status = bare.response.status
                 /\ response.headers = bare.response.headers
                 /\ response.body = bare.response.body
    /\ (Built /\ status = 301)
          => /\ HasHeader("Location")
             /\ \A i \in 1..Len(Header("Location")) : Header("Location")[i] # 63

C17_Witness ==
    /\ pc = "respond"
    /\ method = "GET"
    /\ url = <<97, 47, 63, 47>>
    /\ path = <<97, 47>>
    /\ status = 301
    /\ Header("Location") = <<97>>

\* Reached too: a file is served under a URL whose query holds a '?'.
C17_FileWithQuery ==
    /\ AnsweredOnStableFs
    /\ url = <<47, 97, 63, 47, 63, 47>>
    /\ path = <<47, 97>>
    /\ status = 200
    /\ response.body = <<120, 121>>


====
